---- MODULE Spec2Model ----
(***************************************************************************)
(* SelfAveragingLMMSEVAMPSolver (src/ampy/SelfAveragingLMMSEVAMPSolver.py) *)
(* as a state machine: the constructor (SVD, pseudo-inverse, y_tilde,      *)
(* random initial state) and one call of solve with message = False        *)
(* (denoiser half, LMMSE half, convergence test, diagnostics).             *)
(*                                                                         *)
(* Numbers are floating-point values: a sign, a mantissa of Prec decimal   *)
(* digits and a decimal exponent, with zero, +-inf and nan, rounded to     *)
(* nearest (ties to even) after every operation, as numpy's float64 does   *)
(* with 53 binary digits.  Division by zero gives inf or nan and never     *)
(* raises, as for numpy scalars.  A sum absorbs its smaller term when the  *)
(* terms differ by more than about 10^Prec, where float64 does so at 2^53: *)
(* what float64 shows for A = 1e4 * I the model shows for A = I already.   *)
(*                                                                         *)
(* The observation matrices drawn are rectangular diagonal with a          *)
(* non-negative, non-increasing diagonal, for which the SVD is u = I,      *)
(* s = the diagonal, vh = I.                                               *)
(***************************************************************************)
EXTENDS Integers, Sequences, FiniteSets, TLC

\* ------------------------------------------------------------------ bounds
\* significant decimal digits of the floating-point model
Prec == 3
\* largest decimal exponent of a finite value (float64: about 1.8e308)
MaxExp == 308
\* smallest decimal exponent of a nonzero value is -MinExp (float64: about 5e-324)
MinExp == 324

\* ------------------------------------------------- floating-point numbers
RECURSIVE Pow10(_)
Pow10(n) ==
    IF n <= 0 THEN 1 ELSE 10 * Pow10(n - 1)

RECURSIVE Digits(_)
Digits(m) ==
    IF m < 10 THEN 1 ELSE 1 + Digits(m \div 10)

Zero ==
    [k |-> "zero", s |-> 1, m |-> 0, e |-> 0]

NaN ==
    [k |-> "nan", s |-> 1, m |-> 0, e |-> 0]

Inf(sg) ==
    [k |-> "inf", s |-> sg, m |-> 0, e |-> 0]

IsNaN(x) ==
    x.k = "nan"

IsFinite(x) ==
    x.k \in {"zero", "num"}

\* a normalised mantissa and exponent, with overflow to inf and underflow to 0
Pack(sg, m, e) ==
    IF e + Prec - 1 > MaxExp THEN Inf(sg)
    ELSE IF e + Prec - 1 < 0 - MinExp THEN Zero
    ELSE [k |-> "num", s |-> sg, m |-> m, e |-> e]

\* sg * m * 10^e (m >= 0 any integer; sticky: the exact value is a little
\* above m * 10^e) rounded to Prec digits, to nearest, ties to even
Round(sg, m, e, sticky) ==
    IF m = 0 THEN Zero
    ELSE LET nd == Digits(m) IN
         IF nd <= Prec
         THEN Pack(sg, m * Pow10(Prec - nd), e - (Prec - nd))
         ELSE LET sh == nd - Prec
                  p == Pow10(sh)
                  q == m \div p
                  r == m % p
                  up == (2 * r > p) \/ (2 * r = p /\ (sticky \/ q % 2 = 1))
                  q1 == IF up THEN q + 1 ELSE q
              IN IF q1 = Pow10(Prec)
                 THEN Pack(sg, Pow10(Prec - 1), e + sh + 1)
                 ELSE Pack(sg, q1, e + sh)

\* the float nearest to n * 10^e (n any integer)
F(n, e) ==
    IF n < 0 THEN Round(0 - 1, 0 - n, e, FALSE) ELSE Round(1, n, e, FALSE)

FNeg(x) ==
    IF x.k \in {"num", "inf"} THEN [x EXCEPT !.s = 0 - x.s] ELSE x

FAbs(x) ==
    IF x.k \in {"num", "inf"} THEN [x EXCEPT !.s = 1] ELSE x

\* -1, 0, 1 for a non-nan value
Sgn(x) ==
    IF x.k = "zero" THEN 0 ELSE x.s

FMul(x, y) ==
    IF IsNaN(x) \/ IsNaN(y) THEN NaN
    ELSE IF x.k = "inf" \/ y.k = "inf"
         THEN IF x.k = "zero" \/ y.k = "zero" THEN NaN ELSE Inf(x.s * y.s)
    ELSE IF x.k = "zero" \/ y.k = "zero" THEN Zero
    ELSE Round(x.s * y.s, x.m * y.m, x.e + y.e, FALSE)

FDiv(x, y) ==
    IF IsNaN(x) \/ IsNaN(y) THEN NaN
    ELSE IF x.k = "inf"
         THEN IF y.k = "inf" THEN NaN ELSE Inf(x.s * y.s)
    ELSE IF y.k = "inf" THEN Zero
    ELSE IF y.k = "zero"
         THEN IF x.k = "zero" THEN NaN ELSE Inf(x.s)
    ELSE IF x.k = "zero" THEN Zero
    ELSE LET n == x.m * Pow10(Prec + 1)
         IN Round(x.s * y.s, n \div y.m, x.e - y.e - (Prec + 1), n % y.m # 0)

FAdd(x, y) ==
    IF IsNaN(x) \/ IsNaN(y) THEN NaN
    ELSE IF x.k = "inf"
         THEN IF y.k = "inf" /\ y.s # x.s THEN NaN ELSE x
    ELSE IF y.k = "inf" THEN y
    ELSE IF x.k = "zero" THEN y
    ELSE IF y.k = "zero" THEN x
    ELSE LET hi == IF x.e >= y.e THEN x ELSE y
             lo == IF x.e >= y.e THEN y ELSE x
             df == hi.e - lo.e
         IN IF df > Prec + 1 THEN hi
            ELSE LET a == hi.s * hi.m * Pow10(df) + lo.s * lo.m
                 IN IF a = 0 THEN Zero
                    ELSE IF a < 0 THEN Round(0 - 1, 0 - a, lo.e, FALSE)
                    ELSE Round(1, a, lo.e, FALSE)

FSub(x, y) ==
    FAdd(x, FNeg(y))

\* x < y; false when either is nan
FLt(x, y) ==
    IF IsNaN(x) \/ IsNaN(y) THEN FALSE
    ELSE IF Sgn(x) # Sgn(y) THEN Sgn(x) < Sgn(y)
    ELSE IF Sgn(x) = 0 THEN FALSE
    ELSE LET a == IF Sgn(x) = 1 THEN x ELSE y
             b == IF Sgn(x) = 1 THEN y ELSE x
         IN \* both positive in magnitude: is |a| < |b| ?
            IF a.k = "inf" THEN FALSE
            ELSE IF b.k = "inf" THEN TRUE
            ELSE a.e < b.e \/ (a.e = b.e /\ a.m < b.m)

\* x == y; false when either is nan
FEq(x, y) ==
    ~IsNaN(x) /\ ~IsNaN(y) /\ x = y

FLe(x, y) ==
    FLt(x, y) \/ FEq(x, y)

\* the integer square root of X, lo <= result <= hi, by bisection
RECURSIVE ISqrt(_, _, _)
ISqrt(X, lo, hi) ==
    IF lo >= hi THEN lo
    ELSE LET mid == (lo + hi + 1) \div 2
         IN IF mid * mid <= X THEN ISqrt(X, mid, hi) ELSE ISqrt(X, lo, mid - 1)

FSqrt(x) ==
    IF IsNaN(x) THEN NaN
    ELSE IF x.k = "zero" THEN Zero
    ELSE IF x.s < 0 THEN NaN
    ELSE IF x.k = "inf" THEN x
    ELSE LET sh == IF (x.e - (Prec - 1)) % 2 = 0 THEN Prec - 1 ELSE Prec
             X == x.m * Pow10(sh)
             q == ISqrt(X, Pow10(Prec - 1), Pow10(Prec) - 1)
             q1 == IF X > q * q + q THEN q + 1 ELSE q
         IN Round(1, q1, (x.e - sh) \div 2, FALSE)

\* ------------------------------------------------------- python values
\* a Python int (abs_diff = 9999 before the first iteration)
PyInt(n) ==
    [k |-> "int", s |-> 1, m |-> n, e |-> 0]

\* a field no statement has assigned yet
None ==
    [k |-> "none", s |-> 1, m |-> 0, e |-> 0]

\* the float an arithmetic operation sees for a Python number
ToFloat(x) ==
    IF x.k = "int" THEN F(x.m, 0) ELSE x

One ==
    F(1, 0)

\* ------------------------------------------------------ numpy operations
\* np.sign
NpSign(x) ==
    IF IsNaN(x) THEN NaN ELSE F(Sgn(x), 0)

\* np.heaviside(x, h)
Heaviside(x, h) ==
    IF IsNaN(x) THEN NaN
    ELSE IF Sgn(x) < 0 THEN Zero
    ELSE IF Sgn(x) = 0 THEN h
    ELSE One

\* np.clip(x, a_min, a_max) = minimum(maximum(x, a_min), a_max); nan stays nan
Clip(x, a_min, a_max) ==
    IF IsNaN(x) THEN NaN
    ELSE IF FLt(x, a_min) THEN a_min
    ELSE IF FLt(a_max, x) THEN a_max
    ELSE x

RECURSIVE SumTo(_, _)
SumTo(v, n) ==
    IF n = 0 THEN Zero ELSE FAdd(SumTo(v, n - 1), v[n])

Sum(v) ==
    SumTo(v, Len(v))

\* np.mean(v), v.mean()
Mean(v) ==
    FDiv(Sum(v), F(Len(v), 0))

\* np.linalg.norm of a vector
Norm(v) ==
    FSqrt(Sum([i \in 1..Len(v) |-> FMul(v[i], v[i])]))

VAdd(u, v) ==
    [i \in 1..Len(u) |-> FAdd(u[i], v[i])]

VSub(u, v) ==
    [i \in 1..Len(u) |-> FSub(u[i], v[i])]

VMul(u, v) ==
    [i \in 1..Len(u) |-> FMul(u[i], v[i])]

VScale(c, v) ==
    [i \in 1..Len(v) |-> FMul(c, v[i])]

VDivS(v, c) ==
    [i \in 1..Len(v) |-> FDiv(v[i], c)]

\* np.zeros(n); a matrix is the sequence of its rows
Zeros(n) ==
    [i \in 1..n |-> Zero]

Eye(n) ==
    [i \in 1..n |-> [j \in 1..n |-> IF i = j THEN One ELSE Zero]]

Transpose(P) ==
    [j \in 1..Len(P[1]) |-> [i \in 1..Len(P) |-> P[i][j]]]

\* P @ v
MatVec(P, v) ==
    [i \in 1..Len(P) |-> Sum(VMul(P[i], v))]

\* P @ Q
MatMul(P, Q) ==
    [i \in 1..Len(P) |-> [j \in 1..Len(Q[1]) |->
        Sum([t \in 1..Len(Q) |-> FMul(P[i][t], Q[t][j])])]]

Min(a, b) ==
    IF a <= b THEN a ELSE b

\* np.linalg.svd of a matrix whose only nonzero entries are a non-negative,
\* non-increasing diagonal (the matrices drawn below): u = I, vh = I and
\* s = the diagonal
SVD(P) ==
    [u  |-> Eye(Len(P)),
     s  |-> [i \in 1..Min(Len(P), Len(P[1])) |-> P[i][i]],
     vh |-> Eye(Len(P[1]))]

\* --------------------------------------------------------------- inputs
\* largest max_iteration passed to solve
MaxIteration == 3

\* exponent of the clamp interval [1e-9, 1e9]
ClipExp == 9

\* initial abs_diff and iteration_index of solve
SENTINEL == 9999

A_MIN ==
    F(1, 0 - ClipExp)

A_MAX ==
    F(1, ClipExp)

Half ==
    F(5, 0 - 1)

Shapes ==
    {<<1, 1>>, <<2, 1>>, <<1, 2>>, <<2, 2>>}

\* singular values of the observation matrices drawn: non-increasing
SingVals(n) ==
    IF n = 1 THEN {<<Zero>>, <<One>>, <<F(1, 10)>>}
    ELSE {<<Zero, Zero>>, <<One, Zero>>, <<One, One>>,
          <<F(1, 10), Zero>>, <<F(1, 10), One>>, <<F(1, 10), F(1, 10)>>}

\* the M x N matrix with diagonal sv
DiagMat(m0, n0, sv) ==
    [i \in 1..m0 |-> [j \in 1..n0 |-> IF i = j THEN sv[i] ELSE Zero]]

Observations(n) ==
    IF n = 1 THEN {<<One>>, <<Zero>>} ELSE {<<One, F(0 - 2, 0)>>, <<Zero, One>>}

Strengths ==
    {Zero, One}

Dumpings ==
    {Zero, Half}

\* values np.random.normal(0.0, 1.0, N) may return
Draws(n) ==
    IF n = 1 THEN {<<Zero>>, <<One>>, <<F(0 - 2, 0)>>}
    ELSE {<<Zero, F(2, 0)>>, <<F(0 - 1, 0), F(2, 0)>>, <<One, One>>,
          <<F(2, 0), F(0 - 3, 0)>>, <<F(5, 0 - 1), Zero>>}

DrawsX(n) ==
    IF n = 1 THEN {<<Half>>, <<F(0 - 1, 0)>>}
    ELSE {<<Half, F(0 - 1, 0)>>, <<One, One>>}

Tolerances ==
    {F(1, 0 - 5), Half}

VARIABLES
    pc, blend,
    A, y, l, dumping, M, N,
    s, s2, U, VT, V, S, S_inv, y_tilde, d,
    x_hat_1, alpha_1, eta_1, gamma_2, r_2,
    x_hat_2, alpha_2, eta_2, gamma_1, r_1,
    max_iteration, tolerance, convergence_flag, abs_diff, iteration_index,
    next_index, old_x_hat_1, new_x_hat_1,
    printed, returned,
    changes, divisors, pre

config ==
    <<blend, A, y, l, dumping>>

factorization ==
    <<M, N, s, s2, U, VT, V, S, S_inv>>

module_1 ==
    <<x_hat_1, alpha_1, eta_1, gamma_2, r_2>>

module_2 ==
    <<x_hat_2, alpha_2, eta_2, gamma_1, r_1>>

vamp_state ==
    <<d, x_hat_1, alpha_1, eta_1, gamma_2, r_2, x_hat_2, alpha_2, eta_2, gamma_1, r_1>>

locals ==
    <<max_iteration, tolerance, convergence_flag, abs_diff, iteration_index,
      next_index, old_x_hat_1, new_x_hat_1>>

outputs ==
    <<printed, returned>>

history ==
    <<changes, divisors, pre>>

vars ==
    <<pc, config, factorization, y_tilde, vamp_state, locals, outputs, history>>

\* ---------------------------------------------------- damping utility
\* utils.update_dumping(old_x, new_x, dumping_coefficient): a convex
\* combination of old_x and new_x; which of the two the coefficient weighs
\* is open, blend names it
update_dumping(old_x, new_x, dumping_coefficient) ==
    LET a == IF blend = "old" THEN old_x ELSE new_x
        b == IF blend = "old" THEN new_x ELSE old_x
    IN FAdd(FMul(dumping_coefficient, a), FMul(FSub(One, dumping_coefficient), b))

update_dumping_vec(old_x, new_x, dumping_coefficient) ==
    [i \in 1..Len(old_x) |-> update_dumping(old_x[i], new_x[i], dumping_coefficient)]

\* ------------------------------------------------------ update methods
\* the soft threshold without its mask: v1 returned instead of v1 * v2
update_x_hat_1_unmasked ==
    VSub(r_1, VScale(FDiv(l, gamma_1), [i \in 1..N |-> NpSign(r_1[i])]))

update_x_hat_1 ==
    LET v1 == VSub(r_1, VScale(FDiv(l, gamma_1), [i \in 1..N |-> NpSign(r_1[i])]))
        v2 == [i \in 1..N |-> Heaviside(FSub(FAbs(r_1[i]), FDiv(l, gamma_1)), Half)]
    IN VMul(v1, v2)

\* the support fraction with heaviside(0) = 0 instead of 0.5
update_alpha_1_strict ==
    LET v1 == [i \in 1..N |-> Heaviside(FSub(FAbs(r_1[i]), FDiv(l, gamma_1)), Zero)]
    IN Mean(v1)

update_alpha_1 ==
    LET v1 == [i \in 1..N |-> Heaviside(FSub(FAbs(r_1[i]), FDiv(l, gamma_1)), Half)]
    IN Mean(v1)

update_eta_1(g1, a1) ==
    FDiv(g1, a1)

update_gamma_2(e1, g1) ==
    FSub(e1, g1)

update_r_2(e1, x1, g1, r1, g2) ==
    VDivS(VSub(VScale(e1, x1), VScale(g1, r1)), g2)

update_d(g2) ==
    [i \in 1..N |-> FDiv(s2[i], FAdd(s2[i], g2))]

update_x_hat_2(dd, r2) ==
    LET v1 == r2
        v2 == MatVec(V, VMul(dd, y_tilde))
        v3 == MatVec(V, VMul(dd, MatVec(VT, r2)))
    IN VSub(VAdd(v1, v2), v3)

update_alpha_2(dd) ==
    FSub(One, Mean(dd))

\* the product in place of the quotient
update_eta_2_product(g2, a2) ==
    FMul(g2, a2)

update_eta_2(g2, a2) ==
    FDiv(g2, a2)

update_gamma_1(e2, g2) ==
    FSub(e2, g2)

update_r_1(e2, x2, g2, r2, g1) ==
    VDivS(VSub(VScale(e2, x2), VScale(g2, r2)), g1)

\* ---------------------------------------------------------------- Init
\* the arguments of the constructor are chosen; nothing is assigned yet
Init ==
    /\ pc = "new"
    /\ blend \in {"old", "new"}
    /\ \E sh \in Shapes : \E sv \in SingVals(Min(sh[1], sh[2])) :
           A = DiagMat(sh[1], sh[2], sv)
    /\ \E n \in {1, 2} : y \in Observations(n)
    /\ l \in Strengths
    /\ dumping \in Dumpings
    /\ M = 0 /\ N = 0
    /\ s = <<>> /\ s2 = <<>> /\ U = <<>> /\ VT = <<>> /\ V = <<>>
    /\ S = <<>> /\ S_inv = <<>> /\ y_tilde = <<>> /\ d = <<>>
    /\ x_hat_1 = <<>> /\ alpha_1 = None /\ eta_1 = None /\ gamma_2 = None /\ r_2 = <<>>
    /\ x_hat_2 = <<>> /\ alpha_2 = None /\ eta_2 = None /\ gamma_1 = None /\ r_1 = <<>>
    /\ max_iteration = 0 /\ tolerance = None /\ convergence_flag = FALSE
    /\ abs_diff = None /\ iteration_index = 0 /\ next_index = 0
    /\ old_x_hat_1 = <<>> /\ new_x_hat_1 = <<>>
    /\ printed = <<>> /\ returned = <<>>
    /\ changes = <<>> /\ divisors = [thr |-> None, r_2 |-> None, d |-> None, r_1 |-> None]
    /\ pre = <<>>

\* ---------------------------------------------------------- constructor
\* __init__, lines 22-42: the SVD and the diagonal pseudo-inverse
Factorize ==
    /\ pc = "new"
    /\ LET m0 == Len(A)
           n0 == Len(A[1])
           f == SVD(A)
           k0 == Len(f.s)
       IN /\ M' = m0
          /\ N' = n0
          /\ s' = [i \in 1..n0 |-> IF i <= k0 THEN f.s[i] ELSE Zero]
          /\ s2' = [i \in 1..n0 |-> IF i <= k0 THEN FMul(f.s[i], f.s[i]) ELSE Zero]
          /\ U' = f.u
          /\ VT' = f.vh
          /\ V' = Transpose(f.vh)
          /\ S' = [i \in 1..m0 |-> [j \in 1..n0 |-> IF i = j THEN f.s[i] ELSE Zero]]
          /\ S_inv' = [i \in 1..n0 |-> [j \in 1..m0 |->
                          IF i = j THEN FDiv(One, f.s[i]) ELSE Zero]]
    /\ pc' = "factorized"
    /\ UNCHANGED <<config, y_tilde, vamp_state, locals, outputs, history>>

\* __init__, line 44 with len(y) # M: the matrix product raises ValueError
RaiseMismatch ==
    /\ pc = "factorized"
    /\ Len(y) # M
    /\ pc' = "raised"
    /\ UNCHANGED <<config, factorization, y_tilde, vamp_state, locals, outputs, history>>

\* __init__, lines 44-60: y_tilde and the initial state; d, r_2 and x_hat_2
\* are drawn too, and solve overwrites them before it reads them
Initialize ==
    /\ pc = "factorized"
    /\ Len(y) = M
    /\ y_tilde' = MatVec(MatMul(S_inv, Transpose(U)), y)
    /\ d' \in {Zeros(N)}
    /\ x_hat_1' \in DrawsX(N)
    /\ alpha_1' = One
    /\ eta_1' = One
    /\ gamma_2' = One
    /\ r_2' \in {Zeros(N)}
    /\ x_hat_2' \in {Zeros(N)}
    /\ alpha_2' = One
    /\ eta_2' = One
    /\ gamma_1' = One
    /\ r_1' \in Draws(N)
    /\ pc' = "constructed"
    /\ UNCHANGED <<config, factorization, locals, outputs, history>>

\* ---------------------------------------------------------------- solve
State ==
    [d |-> d, x_hat_1 |-> x_hat_1, alpha_1 |-> alpha_1, eta_1 |-> eta_1,
     gamma_2 |-> gamma_2, r_2 |-> r_2, x_hat_2 |-> x_hat_2, alpha_2 |-> alpha_2,
     eta_2 |-> eta_2, gamma_1 |-> gamma_1, r_1 |-> r_1]

\* a range that also gives the index max_iteration
HasNextInclusive(i, n) ==
    i <= n

\* range(max_iteration) has another index to give
HasNext(i, n) ==
    i < n

\* abs_diff < tolerance
Satisfied(diff, tol) ==
    FLt(diff, tol)

\* solve, lines 74-76: a call with max_iteration and tolerance
Solve ==
    /\ pc = "constructed"
    /\ max_iteration' \in 0..MaxIteration
    /\ tolerance' \in Tolerances
    /\ convergence_flag' = FALSE
    /\ abs_diff' = PyInt(SENTINEL)
    /\ iteration_index' = SENTINEL
    /\ next_index' = 0
    /\ pre' = State
    /\ changes' = <<>>
    /\ pc' = "loop"
    /\ UNCHANGED <<config, factorization, y_tilde, vamp_state, old_x_hat_1,
                   new_x_hat_1, outputs, divisors>>

\* solve, lines 78-95: the next index, the denoiser and the message to module 2
Denoise ==
    /\ pc = "loop"
    /\ HasNext(next_index, max_iteration)
    /\ iteration_index' = next_index
    /\ next_index' = next_index + 1
    /\ old_x_hat_1' = x_hat_1
    /\ new_x_hat_1' = update_x_hat_1
    /\ x_hat_1' = update_dumping_vec(x_hat_1, new_x_hat_1', dumping)
    /\ alpha_1' = update_alpha_1
    /\ eta_1' = Clip(update_dumping(eta_1, update_eta_1(gamma_1, alpha_1'), dumping),
                     A_MIN, A_MAX)
    /\ gamma_2' = Clip(update_gamma_2(eta_1', gamma_1), A_MIN, A_MAX)
    /\ r_2' = update_r_2(eta_1', x_hat_1', gamma_1, r_1, gamma_2')
    /\ divisors' = [divisors EXCEPT !.thr = gamma_1, !.r_2 = gamma_2']
    /\ pc' = "lmmse"
    /\ UNCHANGED <<config, factorization, y_tilde, d, module_2, max_iteration,
                   tolerance, convergence_flag, abs_diff, outputs, changes, pre>>

\* solve, lines 98-109: the LMMSE estimator and the message to module 1
Estimate ==
    /\ pc = "lmmse"
    /\ d' = update_d(gamma_2)
    /\ x_hat_2' = update_x_hat_2(d', r_2)
    /\ alpha_2' = update_alpha_2(d')
    /\ eta_2' = update_eta_2(gamma_2, alpha_2')
    /\ gamma_1' = Clip(update_gamma_1(eta_2', gamma_2), A_MIN, A_MAX)
    /\ r_1' = update_r_1(eta_2', x_hat_2', gamma_2, r_2, gamma_1')
    /\ divisors' = [divisors EXCEPT !.d = gamma_2, !.r_1 = gamma_1']
    /\ pc' = "check"
    /\ UNCHANGED <<config, factorization, y_tilde, module_1, locals, outputs,
                   changes, pre>>

\* solve, lines 111-120: the normalized change and the stopping test
Check ==
    /\ pc = "check"
    /\ abs_diff' = FDiv(Norm(VSub(old_x_hat_1, x_hat_1)), FSqrt(F(N, 0)))
    /\ changes' = Append(changes, abs_diff')
    /\ IF Satisfied(abs_diff', tolerance)
       THEN convergence_flag' = TRUE /\ pc' = "break"
       ELSE convergence_flag' = convergence_flag /\ pc' = "loop"
    /\ UNCHANGED <<config, factorization, y_tilde, vamp_state, max_iteration,
                   tolerance, iteration_index, next_index, old_x_hat_1, new_x_hat_1,
                   outputs, divisors, pre>>

\* the snapshot taken at line 79 returned in place of self.x_hat_1
FinalEstimateStale ==
    old_x_hat_1

\* line 139: return self.x_hat_1
FinalEstimate ==
    x_hat_1

\* what solve prints after the loop (lines 121-137)
Diagnostics ==
    IF convergence_flag THEN <<>>
    ELSE LET nrm == Norm(x_hat_1)
         IN <<[line |-> "does not converged."],
              [line |-> "abs_diff=", val |-> abs_diff],
              [line |-> "estimate norm=", val |-> nrm]>>
            \o (IF ~FEq(nrm, Zero)
                THEN <<[line |-> "relative diff= ", val |-> FDiv(ToFloat(abs_diff), nrm)]>>
                ELSE <<>>)
            \o <<[line |-> "iteration num=", val |-> iteration_index + 1]>>

\* solve, lines 121-139: after a break or with range(max_iteration) used up
Report ==
    /\ \/ pc = "break"
       \/ pc = "loop" /\ ~HasNext(next_index, max_iteration)
    /\ printed' = Diagnostics
    /\ returned' = FinalEstimate
    /\ pc' = "returned"
    /\ UNCHANGED <<config, factorization, y_tilde, vamp_state, locals, history>>

Next ==
    \/ Factorize
    \/ RaiseMismatch
    \/ Initialize
    \/ Solve
    \/ Denoise
    \/ Estimate
    \/ Check
    \/ Report

Spec ==
    Init /\ [][Next]_vars

\* ------------------------------------------------------------ properties
\* an iteration of solve has run to its end (line 109) at least once
Completed ==
    pc \in {"check", "loop", "break", "returned"} /\ next_index >= 1

\* x lies within [1e-9, 1e9]
InRange(x) ==
    FLe(A_MIN, x) /\ FLe(x, A_MAX)

\* the threshold lambda / gamma_1 of the denoiser
Threshold ==
    FDiv(l, gamma_1)

Above(i) ==
    FLt(Threshold, FAbs(r_1[i]))

OnThreshold(i) ==
    FEq(FAbs(r_1[i]), Threshold)

\* C1: after every completed iteration gamma_1, gamma_2, eta_1 and eta_2 all
\* lie within [1e-9, 1e9].
C1_PrecisionsInRange ==
    Completed =>
        InRange(gamma_1) /\ InRange(gamma_2) /\ InRange(eta_1) /\ InRange(eta_2)

\* C2: when len(y) differs from the row count of A, the constructor fails
\* before any factorization of A has been made.
C2_RejectedBeforeFactorization ==
    Len(y) # Len(A) => pc \in {"new", "raised"} /\ U = <<>> /\ S_inv = <<>>

\* C3: a zero singular value gets the pseudo-inverse entry 0, and every
\* entry of S_inv and of y_tilde is finite.
C3_PseudoInverseFinite ==
    /\ pc # "new" =>
          /\ \A i \in 1..Min(M, N) : s[i] = Zero => S_inv[i][i] = Zero
          /\ \A i \in 1..N : \A j \in 1..M : IsFinite(S_inv[i][j])
    /\ pc \notin {"new", "factorized", "raised"} =>
          \A i \in 1..N : IsFinite(y_tilde[i])

\* an upper bound on the steps solve still has to take
StepsLeft ==
    CASE pc = "loop" -> 3 * (max_iteration - next_index) + 1
      [] pc = "lmmse" -> 3 * (max_iteration - next_index) + 3
      [] pc = "check" -> 3 * (max_iteration - next_index) + 2
      [] pc = "break" -> 1
      [] OTHER -> 0

\* C4: solve runs at most max_iteration iterations and always reaches its
\* end; it stops at the end of the first iteration whose normalized change
\* is below tolerance, with convergence_flag set (also when that iteration
\* is number max_iteration), and otherwise runs exactly max_iteration
\* iterations and ends with convergence_flag unset.
C4_StopsAtFirstSatisfied ==
    /\ [][(pc = "loop" \/ pc = "lmmse" \/ pc = "check" \/ pc = "break") =>
            StepsLeft' < StepsLeft]_vars
    /\ [](LET n == Len(changes) IN
          /\ StepsLeft >= 0
          /\ n <= max_iteration
          /\ \A i \in 1..(n - 1) : ~FLt(changes[i], tolerance)
          /\ (n >= 1 /\ FLt(changes[n], tolerance)) => pc \in {"break", "returned"}
          /\ pc = "returned" =>
                IF convergence_flag
                THEN n >= 1 /\ FLt(changes[n], tolerance)
                ELSE n = max_iteration
                     /\ \A i \in 1..n : ~FLt(changes[i], tolerance))

C4_ConvergedInLastIteration ==
    /\ pc = "returned"
    /\ convergence_flag
    /\ max_iteration >= 2
    /\ Len(changes) = max_iteration

\* C5: solve raises nothing and returns the current x_hat_1, of length N,
\* converged or not; with max_iteration = 0 it runs no update, leaves the
\* state as it was, returns the unmodified x_hat_1 and prints the
\* non-convergence diagnostic.
C5_ReturnsEstimate ==
    /\ pc = "raised" => tolerance = None
    /\ pc = "returned" =>
          /\ returned = x_hat_1
          /\ Len(returned) = N
          /\ max_iteration = 0 =>
                /\ changes = <<>>
                /\ State = pre
                /\ returned = pre.x_hat_1
                /\ ~convergence_flag
                /\ printed # <<>>
                /\ printed[1].line = "does not converged."

C5_ZeroIterations ==
    pc = "returned" /\ max_iteration = 0 /\ Len(returned) = 2

C7_StrictSupportFraction ==
    pc = "lmmse" =>
        alpha_1 = FDiv(F(Cardinality({i \in 1..N : Above(i)}), 0), F(N, 0))

\* C7 amended: alpha_1 is the mean of heaviside(|r_1[i]| - lambda/gamma_1, 0.5):
\* a coordinate strictly above the threshold counts 1, one exactly on it
\* counts 0.5 and one below it 0; a nan coordinate makes alpha_1 nan.
C7_HalfWeightedSupportFraction ==
    pc = "lmmse" =>
        IF \E i \in 1..N : IsNaN(r_1[i])
        THEN IsNaN(alpha_1)
        ELSE alpha_1 =
                FDiv(F(2 * Cardinality({i \in 1..N : Above(i)})
                       + Cardinality({i \in 1..N : OnThreshold(i)}), 0),
                     F(2 * N, 0))

C7_CoordinateOnThreshold ==
    /\ pc = "lmmse"
    /\ \E i \in 1..N : OnThreshold(i)
    /\ \E i \in 1..N : Above(i)

\* C8 as stated: eta_1 = gamma_1/alpha_1 and eta_2 = gamma_2/alpha_2 in the
\* initial state and after every completed iteration.
C8_EtaIsQuotient ==
    pc = "constructed" \/ Completed =>
        /\ eta_1 = FDiv(gamma_1, alpha_1)
        /\ eta_2 = FDiv(gamma_2, alpha_2)

\* C8 amended: eta_2 = gamma_2/alpha_2 in the initial state and after every
\* completed iteration; eta_1 = gamma_1/alpha_1 in the initial state, and an
\* iteration assigns eta_1 the clamp to [1e-9, 1e9] of the damped blend of
\* its previous value with gamma_1/alpha_1, gamma_1 being the value the
\* iteration started with (it is replaced later in the same iteration).
C8_EtaRecomputed ==
    /\ [](pc = "constructed" \/ Completed => eta_2 = FDiv(gamma_2, alpha_2))
    /\ [](pc = "constructed" => eta_1 = FDiv(gamma_1, alpha_1))
    /\ [][pc = "loop" /\ pc' = "lmmse" =>
            eta_1' = Clip(update_dumping(eta_1, FDiv(gamma_1, alpha_1'), dumping),
                          A_MIN, A_MAX)]_vars

C8_EtaOneNotQuotient ==
    /\ Completed
    /\ IsFinite(eta_1) /\ IsFinite(eta_2) /\ IsFinite(alpha_1)
    /\ eta_1 # FDiv(gamma_1, alpha_1)
    /\ eta_2 = FDiv(gamma_2, alpha_2)
    /\ eta_2 # One

\* C9: every gamma used as a divisor (gamma_1 in the threshold and in r_1,
\* gamma_2 in r_2 and in d) has been clamped first and lies within
\* [1e-9, 1e9].
C9_DivisorsClamped ==
    /\ divisors.thr = None \/ InRange(divisors.thr)
    /\ divisors.r_2 = None \/ InRange(divisors.r_2)
    /\ divisors.d = None \/ InRange(divisors.d)
    /\ divisors.r_1 = None \/ InRange(divisors.r_1)

Printed(name) ==
    {printed[i].val : i \in {j \in 1..Len(printed) : printed[j].line = name}}

\* C10: a solve that ends without convergence prints the final change, the
\* estimate norm, the relative change and the iterations used; the
\* iteration count printed is the number of iterations run and the change
\* printed is that of the last iteration run.
C10_ExhaustedDiagnostics ==
    pc = "returned" /\ ~convergence_flag =>
        /\ Printed("iteration num=") = {Len(changes)}
        /\ Len(changes) >= 1 => Printed("abs_diff=") = {changes[Len(changes)]}
        /\ Printed("estimate norm=") # {}
        /\ Printed("relative diff= ") # {}
====
